---- MODULE Spec2Model ----
(***************************************************************************)
(* A model of the builder / staging state machine of build123d.            *)
(*                                                                         *)
(* The repository holds two programs that share no state:                  *)
(*   - the build123d package (src/src/build123d): BuildSketch, the sketch  *)
(*     objects and the generic operations, driven through a process-wide   *)
(*     builder stack and location stack;                                   *)
(*   - the cq3.py prototype (src/cq3.py): Build3D / Build2D / Build1D with *)
(*     explicit parents.                                                   *)
(* The variable prog says which of the two a behaviour runs.               *)
(*                                                                         *)
(* Six specifications share the actions: Spec (nested builder scopes and   *)
(* cq3.py), SpecOps (the generic operations on one builder),               *)
(* SpecLocations (Locations scopes and pushed locations), SpecSketch (a    *)
(* sketch and its pending edges), SpecDefaults (operations called without  *)
(* a mode) and SpecPart (part builders: solids, workplanes, extrusion).    *)
(*                                                                         *)
(* The geometry kernel is opaque to the builders.  A shape is modelled by  *)
(* the set of unit cells ("points") it covers; a Location is a shift of    *)
(* the cells; fuse / cut / intersect are set union / difference /          *)
(* intersection, and a fused compound keeps one entity per connected       *)
(* (overlapping) group of cells.                                           *)
(***************************************************************************)
EXTENDS Integers, Sequences, FiniteSets, TLC

VARIABLES
    prog,       \* "build123d" or "cq3": the program this behaviour runs
    stack,      \* build123d: Builder._current and its chain of parents, innermost last
    locstack,   \* build123d: LocationList contexts, innermost last
    err,        \* the exception in flight ("none" when there is none)
    last,       \* the operation that ran last: its name, inputs and what it merged
    nops,       \* number of operations run so far
    b3,         \* cq3: the Build3D instance
    b2,         \* cq3: the Build2D instance
    b1          \* cq3: the Build1D instance

vars == <<prog, stack, locstack, err, last, nops, b3, b2, b1>>

\* ------------------------------------------------------------------ bounds

MaxDepth == 2       \* nested builder scopes
MaxLocDepth == 1    \* nested Locations scopes
MaxOps == 2         \* operations in one behaviour

\* ------------------------------------------------------------------ shapes

Identity == 0       \* Location(Vector()): the shift by nothing

Shape(k, p) == [kind |-> k, pts |-> p, parts |-> <<>>]
Group(k, ps) == [kind |-> k, pts |-> {}, parts |-> ps]

NoneShape == Shape("None", {})

FaceA == Shape("Face", {0})
FaceB == Shape("Face", {0, 1})
EdgeA == Shape("Edge", {0})
EdgeB == Shape("Edge", {1})
SolidA == Shape("Solid", {0})
SolidB == Shape("Solid", {0, 1})
VertexA == Shape("Vertex", {0})
WireAB == Group("Wire", <<EdgeA, EdgeB>>)
CompoundAB == Group("Compound", <<FaceA, Shape("Face", {1})>>)

\* Shape.moved(location) / Shape.located(location)
Moved(s, loc) ==
    [kind |-> s.kind,
     pts |-> {p + loc : p \in s.pts},
     parts |-> [i \in DOMAIN s.parts |->
                  [s.parts[i] EXCEPT !.pts = {p + loc : p \in @}]]]

\* [x for x in objects if isinstance(x, kind)]
OfKind(objects, k) == SelectSeq(objects, LAMBDA o : o.kind = k)

RECURSIVE Flatten(_)
Flatten(ss) == IF ss = <<>> THEN <<>> ELSE Head(ss) \o Flatten(Tail(ss))

\* compound.get_type(kind) over every Compound of objects, in order
FromCompounds(objects, k) ==
    Flatten([i \in DOMAIN OfKind(objects, "Compound") |->
               OfKind(OfKind(objects, "Compound")[i].parts, k)])

\* [e for w in wires for e in w.Edges()]
WireEdges(wires) == Flatten([i \in DOMAIN wires |-> wires[i].parts])

PtsOf(shapes) == {shapes[i].pts : i \in DOMAIN shapes}

RECURSIVE SetToSeq(_)
SetToSeq(S) ==
    IF S = {} THEN <<>>
    ELSE LET x == CHOOSE y \in S : TRUE IN <<x>> \o SetToSeq(S \ {x})

\* ------------------------------------------------------------------ kernel

\* One entity per group of overlapping entities (what fuse(...).clean() leaves).
RECURSIVE MergeOverlapping(_)
MergeOverlapping(ents) ==
    IF \E a \in ents, b \in ents : a # b /\ a \cap b # {}
    THEN LET a == CHOOSE a \in ents : \E b \in ents : a # b /\ a \cap b # {}
             b == CHOOSE b \in ents : a # b /\ a \cap b # {}
         IN MergeOverlapping((ents \ {a, b}) \cup {a \cup b})
    ELSE ents

Fuse(ents, tools) == MergeOverlapping(ents \cup tools)
Cut(ents, tools) == {e \ UNION tools : e \in ents} \ {{}}
Intersect(ents, tools) == {e \cap UNION tools : e \in ents} \ {{}}

\* Compound.makeCompound(shapes): the shapes side by side, not fused
MakeCompound(shapes) == PtsOf(shapes) \ {{}}

\* an accumulated result: None, or a compound of entities
None == [isNone |-> TRUE, ents |-> {}]
Some(e) == [isNone |-> FALSE, ents |-> e]
EntsOf(obj) == IF obj.isNone THEN {} ELSE obj.ents

\* ------------------------------------------------------------------ builders

Modes == {"ADD", "SUBTRACT", "INTERSECT", "REPLACE", "CONSTRUCTION", "PRIVATE"}

\* A builder as constructed: no result, nothing pending, no delta.
NewBuilder(k, m) ==
    [kind |-> k, mode |-> m, obj |-> None,
     pending_edges |-> <<>>, pending_faces |-> <<>>,
     last_faces |-> {}, locations |-> <<Identity>>]

DeltaKeepsAll(pre, post) == post

DeltaSymmetric(pre, post) == (post \ pre) \cup (pre \ post)

\* The last-operation delta: the entities of the result after the merge that
\* were not in the result before it.
Delta(pre, post) == post \ pre

\* What a merge returns: the builder afterwards and the error raised, if any.
Ok(b) == [b |-> b, err |-> "none"]
Raise(b, e) == [b |-> b, err |-> e]

\* The boolean step of a merge of new entities into a result under mode.
BooleanStep(obj, new, mode) ==
    CASE mode = "ADD" ->
            IF obj.isNone THEN Some(MakeCompound(new))
            ELSE Some(Fuse(obj.ents, MakeCompound(new)))
      [] mode = "SUBTRACT" -> Some(Cut(obj.ents, MakeCompound(new)))
      [] mode = "INTERSECT" -> Some(Intersect(obj.ents, MakeCompound(new)))
      [] mode = "REPLACE" -> Some(MakeCompound(new))
      [] OTHER -> obj

BooleanStepReplaceFuses(obj, new, mode) ==
    IF mode = "REPLACE" THEN BooleanStep(obj, new, "ADD")
    ELSE BooleanStep(obj, new, mode)

BooleanStepConstructionAdds(obj, new, mode) ==
    IF mode = "CONSTRUCTION" THEN BooleanStep(obj, new, "ADD")
    ELSE BooleanStep(obj, new, mode)

SketchBoolean(obj, new, mode) == BooleanStep(obj, new, mode)

PendingDropsWires(pending, new_edges, new_wires) == pending \o new_edges

\* self.pending_edges.extend(new_edges + [e for w in new_wires for e in w.Edges()])
PendingAfter(pending, new_edges, new_wires) ==
    pending \o new_edges \o WireEdges(new_wires)

\* BuildSketch._add_to_context(*objects, mode=mode)
SketchAddToContext(b, objects, mode) ==
    IF mode = "PRIVATE" THEN Ok(b)
    ELSE
      LET new_faces == OfKind(objects, "Face") \o FromCompounds(objects, "Face")
          new_edges == OfKind(objects, "Edge") \o FromCompounds(objects, "Edge")
          new_wires == OfKind(objects, "Wire") \o FromCompounds(objects, "Wire")
          pre_faces == EntsOf(b.obj)
      IN IF new_faces # <<>> /\ mode \in {"SUBTRACT", "INTERSECT"} /\ b.obj.isNone
         THEN Raise(b, "RuntimeError")
         ELSE
           LET sketch == IF new_faces # <<>>
                         THEN SketchBoolean(b.obj, new_faces, mode)
                         ELSE b.obj
           IN Ok([b EXCEPT !.obj = sketch,
                           !.last_faces = Delta(pre_faces, EntsOf(sketch)),
                           !.pending_edges = PendingAfter(@, new_edges, new_wires)])

\* BuildPart._add_to_context(*objects, mode=mode): solids go through the boolean
\* step, faces and edges are staged.
PartAddToContext(b, objects, mode) ==
    IF mode = "PRIVATE" THEN Ok(b)
    ELSE
      LET new_solids == OfKind(objects, "Solid") \o FromCompounds(objects, "Solid")
          new_faces == OfKind(objects, "Face") \o FromCompounds(objects, "Face")
          new_edges == OfKind(objects, "Edge") \o FromCompounds(objects, "Edge")
          new_wires == OfKind(objects, "Wire") \o FromCompounds(objects, "Wire")
          pre_faces == EntsOf(b.obj)
      IN IF new_solids # <<>> /\ mode \in {"SUBTRACT", "INTERSECT"} /\ b.obj.isNone
         THEN Raise(b, "RuntimeError")
         ELSE
           LET part == IF new_solids = <<>> THEN b.obj
                       ELSE IF mode = "ADD" /\ b.obj.isNone
                            THEN Some(MergeOverlapping(MakeCompound(new_solids)))
                            ELSE BooleanStep(b.obj, new_solids, mode)
           IN Ok([b EXCEPT !.obj = part,
                           !.last_faces = Delta(pre_faces, EntsOf(part)),
                           !.pending_faces = @ \o new_faces,
                           !.pending_edges = PendingAfter(@, new_edges, new_wires)])

\* BuildLine._add_to_context(*objects, mode=mode): edges are the entities merged.
LineAddToContext(b, objects, mode) ==
    IF mode = "PRIVATE" THEN Ok(b)
    ELSE
      LET new_edges == OfKind(objects, "Edge") \o FromCompounds(objects, "Edge")
                       \o WireEdges(OfKind(objects, "Wire"))
          pre == EntsOf(b.obj)
      IN IF new_edges # <<>> /\ mode \in {"SUBTRACT", "INTERSECT"} /\ b.obj.isNone
         THEN Raise(b, "RuntimeError")
         ELSE
           LET line == IF new_edges = <<>> THEN b.obj
                       ELSE CASE mode = "ADD" -> Some(EntsOf(b.obj) \cup PtsOf(new_edges))
                              [] mode = "REPLACE" -> Some(PtsOf(new_edges))
                              [] mode = "SUBTRACT" -> Some(b.obj.ents \ PtsOf(new_edges))
                              [] mode = "INTERSECT" -> Some(b.obj.ents \cap PtsOf(new_edges))
                              [] OTHER -> b.obj
           IN Ok([b EXCEPT !.obj = line, !.last_faces = {}])

\* context._add_to_context(*objects, mode=mode), dispatched on the builder's class.
\* TestBuilder._add_to_context(self) takes no objects and no mode: the call raises.
AddToContext(b, objects, mode) ==
    CASE b.kind = "BuildSketch" -> SketchAddToContext(b, objects, mode)
      [] b.kind = "BuildPart" -> PartAddToContext(b, objects, mode)
      [] b.kind = "BuildLine" -> LineAddToContext(b, objects, mode)
      [] OTHER -> Raise(b, "TypeError")

\* for obj in objects: context._add_to_context(obj, mode=mode): the first error
\* ends the loop and keeps what the earlier merges did.
RECURSIVE AddEach(_, _, _)
AddEach(b, objects, mode) ==
    IF objects = <<>> THEN Ok(b)
    ELSE LET r == AddToContext(b, <<Head(objects)>>, mode)
         IN IF r.err # "none" THEN r ELSE AddEach(r.b, Tail(objects), mode)

\* context._obj as a shape: the result compound, or None
EntityKind(b) ==
    CASE b.kind = "BuildSketch" -> "Face"
      [] b.kind = "BuildPart" -> "Solid"
      [] OTHER -> "Edge"

ObjShape(b) ==
    IF b.obj.isNone THEN NoneShape
    ELSE Group("Compound",
               [i \in DOMAIN SetToSeq(b.obj.ents) |->
                  Shape(EntityKind(b), SetToSeq(b.obj.ents)[i])])

\* ------------------------------------------------------------------ build123d: contexts

\* Builder._get_context(): cls._current.get(None)
HasContext == stack # <<>>
Cur == stack[Len(stack)]

\* LocationList._get_context().locations: the innermost set, or the identity
CurrentLocations ==
    IF locstack = <<>> THEN <<Identity>> ELSE locstack[Len(locstack)].locs

\* [f(x, loc) for x in xs for loc in locations]
Broadcast(xs, locs) ==
    Flatten([i \in DOMAIN xs |-> [j \in DOMAIN locs |-> Moved(xs[i], locs[j])]])

\* The last step taken: its name, mode and objects, the locations it saw, the
\* instances it handed to a merge, and whether a builder scope was left with
\* none entered since.
NoOp ==
    [op |-> "init", mode |-> "", objs |-> <<>>, locs |-> <<>>, merged |-> <<>>,
     exited |-> FALSE]
Last(name, mode, objs, merged) ==
    [op |-> name, mode |-> mode, objs |-> objs, locs |-> CurrentLocations,
     merged |-> merged, exited |-> last.exited]
Left(l) == [l EXCEPT !.exited = TRUE]
Entered(l) == [l EXCEPT !.exited = FALSE]

Running == prog = "build123d" /\ err = "none" /\ nops < MaxOps

\* An operation ends: the current builder becomes r.b, r.err is raised.
Finish(name, mode, objs, merged, r) ==
    /\ stack' = [stack EXCEPT ![Len(stack)] = r.b]
    /\ err' = r.err
    /\ last' = Last(name, mode, objs, merged)
    /\ nops' = nops + 1
    /\ UNCHANGED <<prog, b3, b2, b1>>

\* An operation raises e before it touched anything.
Fail(name, mode, objs, e) ==
    /\ err' = e
    /\ last' = Last(name, mode, objs, <<>>)
    /\ nops' = nops + 1
    /\ UNCHANGED <<prog, stack, b3, b2, b1>>

\* validate_inputs(self, context, objects): no active builder is an error.  The
\* operations below draw their objects from the kinds their signatures accept.
ValidateInputs == IF HasContext THEN "none" ELSE "RuntimeError"

BuilderKinds == {"BuildLine", "BuildSketch", "BuildPart", "TestBuilder"}

\* with Builder(mode=m): Builder.__enter__
Enter(k, m) ==
    /\ prog = "build123d" /\ err = "none"
    /\ Len(stack) < MaxDepth
    /\ stack' = Append(stack, NewBuilder(k, m))
    /\ last' = Entered(Last("Enter", m, <<>>, <<>>))
    /\ UNCHANGED <<prog, locstack, err, nops, b3, b2, b1>>

\* The innermost open scope is a Locations scope (entered under the current builder).
LocsInnermost ==
    locstack # <<>> /\ locstack[Len(locstack)].depth = Len(stack)

\* Builder.__exit__: the finished result goes to the parent's _add_to_context
\* with the builder's mode, and the builder stops being current whatever happens.
PopBuilder ==
    LET child == Cur
        rest == SubSeq(stack, 1, Len(stack) - 1)
    IN IF rest = <<>>
       THEN /\ stack' = rest
            /\ err' = err
            /\ last' = Left(Last("Exit", child.mode, <<ObjShape(child)>>, <<>>))
       ELSE LET r == AddToContext(rest[Len(rest)], <<ObjShape(child)>>, child.mode)
            IN /\ stack' = [rest EXCEPT ![Len(rest)] = r.b]
               /\ err' = IF r.err # "none" THEN r.err ELSE err
               /\ last' = Left(Last("Exit", child.mode, <<ObjShape(child)>>,
                                    <<ObjShape(child)>>))

PopBuilderKeepsCurrentOnError ==
    IF err # "none"
    THEN /\ stack' = stack
         /\ err' = err
         /\ last' = Last("Exit", Cur.mode, <<ObjShape(Cur)>>, <<>>)
    ELSE PopBuilder

ExitBuilder == PopBuilder

\* leaving a builder's with block normally
Exit ==
    /\ prog = "build123d" /\ err = "none"
    /\ HasContext /\ ~LocsInnermost
    /\ ExitBuilder
    /\ UNCHANGED <<prog, locstack, nops, b3, b2, b1>>

\* with Locations(*pts): LocationList.__enter__
EnterLocations(locs) ==
    /\ prog = "build123d" /\ err = "none" /\ HasContext
    /\ Len(locstack) < MaxLocDepth
    /\ locstack' = Append(locstack, [locs |-> locs, depth |-> Len(stack)])
    /\ last' = Last("EnterLocations", "", <<>>, <<>>)
    /\ UNCHANGED <<prog, stack, err, nops, b3, b2, b1>>

\* LocationList.__exit__
ExitLocations ==
    /\ prog = "build123d" /\ err = "none"
    /\ LocsInnermost
    /\ locstack' = SubSeq(locstack, 1, Len(locstack) - 1)
    /\ last' = Last("ExitLocations", "", <<>>, <<>>)
    /\ UNCHANGED <<prog, stack, err, nops, b3, b2, b1>>

\* An exception leaves the innermost with block: its __exit__ runs.
Unwind ==
    /\ prog = "build123d" /\ err # "none"
    /\ \/ /\ LocsInnermost
          /\ locstack' = SubSeq(locstack, 1, Len(locstack) - 1)
          /\ last' = Last("ExitLocations", "", <<>>, <<>>)
          /\ UNCHANGED <<stack, err>>
       \/ /\ ~LocsInnermost /\ HasContext
          /\ ExitBuilder
          /\ UNCHANGED locstack
    /\ UNCHANGED <<prog, nops, b3, b2, b1>>

\* The caller catches the exception (assertRaises, try / except).
Catch ==
    /\ err # "none"
    /\ err' = "none"
    /\ last' = Last("Catch", "", <<>>, <<>>)
    /\ UNCHANGED <<prog, stack, locstack, nops, b3, b2, b1>>

\* ------------------------------------------------------------------ kernel transforms

MapPts(s, f(_)) ==
    [kind |-> s.kind, pts |-> f(s.pts),
     parts |-> [i \in DOMAIN s.parts |-> [s.parts[i] EXCEPT !.pts = f(@)]]]

AllPts(s) == s.pts \cup UNION {s.parts[i].pts : i \in DOMAIN s.parts}

Min(S) == CHOOSE x \in S : \A y \in S : x <= y
Max(S) == CHOOSE x \in S : \A y \in S : x >= y

\* obj.BoundingBox(): the smallest axis-aligned box around the shape
BBoxPts(s) == Min(AllPts(s)) .. Max(AllPts(s))
\* o.transformGeometry(mirror matrix) in the mirror plane's frame
MirrorPts(P) == {0 - p - 1 : p \in P}
\* offset2D(amount) with a positive amount
OffsetPts(P) == P \cup {p - 1 : p \in P} \cup {p + 1 : p \in P}
\* solid.shell(openings, amount): the offset solid without its core
ShellPts(P) == OffsetPts(P) \ P
\* transformGeometry(scale matrix) with by = 2
ScalePts(P) == {2 * p : p \in P} \cup {2 * p + 1 : p \in P}
\* the cutter boxes of Split: the half above the bisecting plane, the half below
TopHalf(P) == {p \in P : p >= 1}
BottomHalf(P) == {p \in P : p <= 0}
\* chamfer / fillet of the selected corners: they are trimmed off
TrimPts(P, sel) == IF P \ sel = {} THEN P ELSE P \ sel

\* ------------------------------------------------------------------ build123d: objects and operations

AddObjects ==
    {<<FaceA>>, <<EdgeA>>, <<SolidA>>, <<WireAB>>, <<CompoundAB>>,
     <<FaceA, SolidB>>, <<FaceA, FaceB>>}

\* BuildPart._add_to_pending(*objects): staged once per active location
AddToPending(b, objects) ==
    [b EXCEPT !.pending_faces = @ \o Broadcast(OfKind(objects, "Face"), CurrentLocations),
              !.pending_edges = @ \o Broadcast(OfKind(objects, "Edge"), CurrentLocations)]

\* Add under BuildPart: faces and edges are staged, then the located solids merged
AddPartStaged(objects) ==
    LET new_faces == OfKind(objects, "Face") \o FromCompounds(objects, "Face")
        new_edges == OfKind(objects, "Edge") \o WireEdges(OfKind(objects, "Wire"))
    IN [AddToPending(AddToPending(Cur, new_faces), new_edges)
          EXCEPT !.locations = <<Identity>>]

AddPartSolids(objects) ==
    Broadcast(OfKind(objects, "Solid") \o FromCompounds(objects, "Solid"),
              CurrentLocations)

AddFirstLocationOnly(objects) == Broadcast(objects, <<Head(CurrentLocations)>>)

\* Add under BuildLine / BuildSketch: every object at every location
AddLocated(objects) == Broadcast(objects, CurrentLocations)

\* Add(*objects, mode=mode)
Add(objects, mode) ==
    /\ Running
    /\ IF ValidateInputs # "none" THEN Fail("Add", mode, objects, ValidateInputs)
       ELSE IF Cur.kind = "BuildPart"
       THEN Finish("Add", mode, objects, AddPartSolids(objects),
                   AddToContext(AddPartStaged(objects), AddPartSolids(objects), mode))
       ELSE IF Cur.kind \in {"BuildLine", "BuildSketch"}
       THEN Finish("Add", mode, objects, AddLocated(objects),
                   AddToContext(Cur, AddLocated(objects), mode))
       ELSE Fail("Add", mode, objects, "RuntimeError")
    /\ UNCHANGED locstack

\* Sketch objects are called in a sketch (or, by mistake, with no builder at all).
SketchOrNoContext == IF HasContext THEN Cur.kind = "BuildSketch" ELSE TRUE

\* [face.moved(location) for location in LocationList._get_context().locations]
CircleFaces(face) == Broadcast(<<face>>, CurrentLocations)

CircleLocationsConsumed ==
    IF locstack = <<>> THEN locstack
    ELSE [locstack EXCEPT ![Len(locstack)].locs = <<Identity>>]

\* Circle reads the active locations and leaves them as they are
CircleLocationsAfter == locstack

CircleNoValidate(face, mode) ==
    /\ Running
    /\ SketchOrNoContext
    /\ IF ~HasContext THEN Fail("Circle", mode, <<face>>, "AttributeError")
       ELSE Finish("Circle", mode, <<face>>, CircleFaces(face),
                   AddEach(Cur, CircleFaces(face), mode))
    /\ locstack' = CircleLocationsAfter

\* Circle(radius, mode=mode): one face per location, merged one by one
Circle(face, mode) ==
    /\ Running
    /\ SketchOrNoContext
    /\ IF ValidateInputs # "none" THEN Fail("Circle", mode, <<face>>, ValidateInputs)
       ELSE Finish("Circle", mode, <<face>>, CircleFaces(face),
                   AddEach(Cur, CircleFaces(face), mode))
    /\ locstack' = CircleLocationsAfter

\* Face.makeFromWires(Wire.combine(outer_edges)[0]): the face the perimeter edges
\* enclose
PerimeterFace(edges) == Shape("Face", UNION PtsOf(edges))

\* Face.makeFromWires(find_hull(hull_edges)): the face of the convex hull
HullFace(edges) == Shape("Face", Min(UNION PtsOf(edges)) .. Max(UNION PtsOf(edges)))

\* a Mode passed where an object is expected: no Face, Edge, Wire or Compound
ModeObject(mode) == Shape("Mode", {})

\* the mode of _add_to_context when the call gives none by keyword
AddToContextDefaultMode == "ADD"

ConsumedKeeps(pending) == pending

\* context.pending_edges = ShapeList()
Consumed(pending) == <<>>

\* context._add_to_context(pending_face, mode): the mode is passed by position,
\* as one more object; then the pending edges are dropped
MergePendingFace(b, pending_face, mode) ==
    LET r == SketchAddToContext(b, <<pending_face, ModeObject(mode)>>,
                                AddToContextDefaultMode)
    IN IF r.err # "none" THEN r
       ELSE Ok([r.b EXCEPT !.pending_edges = Consumed(@)])

\* the body shared by BuildFace.__init__ and BuildHull.__init__ (with no edge
\* at all the kernel has nothing to make a wire of)
FaceFromEdges(name, edges, mode, pending_face, e) ==
    /\ Running
    /\ SketchOrNoContext
    /\ IF ValidateInputs # "none" THEN Fail(name, mode, edges, ValidateInputs)
       ELSE IF edges = <<>> /\ Cur.pending_edges = <<>>
       THEN Fail(name, mode, edges, e)
       ELSE Finish(name, mode, edges, <<pending_face>>,
                   MergePendingFace(Cur, pending_face, mode))
    /\ UNCHANGED locstack

\* outer_edges = edges if edges else context.pending_edges
OuterEdges(edges) ==
    IF edges # <<>> THEN edges
    ELSE IF HasContext THEN Cur.pending_edges ELSE <<>>

\* BuildFace(*edges, mode=mode)
BuildFace(edges, mode) ==
    FaceFromEdges("BuildFace", edges, mode,
                  IF OuterEdges(edges) = <<>> THEN NoneShape
                  ELSE PerimeterFace(OuterEdges(edges)), "IndexError")

\* BuildHull(*edges, mode=mode)
BuildHull(edges, mode) ==
    FaceFromEdges("BuildHull", edges, mode,
                  IF OuterEdges(edges) = <<>> THEN NoneShape
                  ELSE HullFace(OuterEdges(edges)), "KernelError")

\* face.Vertices(): the corner vertices of a rectangle (the extremes of its
\* cells on the one axis of the model)
Corners(face) ==
    <<Shape("Vertex", {Min(face.pts)}), Shape("Vertex", {Max(face.pts)})>>

BoxObjects == {<<>>, Corners(FaceB), <<FaceB>>, <<VertexA, FaceB>>, <<SolidB, EdgeA>>}

BoxesOfVerticesToo(objects, k) ==
    [i \in DOMAIN objects |-> Shape(k, BBoxPts(objects[i]))]

\* the boxes of BoundingBox: one per object that is no Vertex
Boxes(objects, k) ==
    [i \in DOMAIN SelectSeq(objects, LAMBDA o : o.kind # "Vertex") |->
       Shape(k, BBoxPts(SelectSeq(objects, LAMBDA o : o.kind # "Vertex")[i]))]

\* BoundingBox(*objects, mode=mode)
BoundingBox(objects, mode) ==
    /\ Running
    /\ IF ValidateInputs # "none" THEN Fail("BoundingBox", mode, objects, ValidateInputs)
       ELSE IF Cur.kind = "BuildPart"
       THEN Finish("BoundingBox", mode, objects, Boxes(objects, "Solid"),
                   AddToContext(Cur, Boxes(objects, "Solid"), mode))
       ELSE IF Cur.kind = "BuildSketch"
       THEN Finish("BoundingBox", mode, objects, Boxes(objects, "Face"),
                   AddEach(Cur, Boxes(objects, "Face"), mode))
       ELSE Fail("BoundingBox", mode, objects, "RuntimeError")
    /\ UNCHANGED locstack

\* the corners selected by objects that belong to the entity ent
InEntity(objects, ent) ==
    UNION {objects[i].pts : i \in {j \in DOMAIN objects : objects[j].pts \subseteq ent}}

\* Chamfer / Fillet under BuildSketch: each face with its own selected vertices
\* trimmed, the others as they are, as one compound
TrimmedSketch(b, objects) ==
    Group("Compound",
          [i \in DOMAIN SetToSeq(b.obj.ents) |->
             Shape("Face", TrimPts(SetToSeq(b.obj.ents)[i],
                                   InEntity(objects, SetToSeq(b.obj.ents)[i])))])

\* context.part.chamfer(...) / .fillet(...): the part with the selection trimmed
TrimmedPart(b, objects) ==
    Group("Compound",
          [i \in DOMAIN SetToSeq(b.obj.ents) |->
             Shape("Solid", TrimPts(SetToSeq(b.obj.ents)[i],
                                    InEntity(objects, SetToSeq(b.obj.ents)[i])))])

TrimObjects == {<<>>, <<VertexA>>, <<EdgeA>>}

\* the body shared by Chamfer.__init__ and Fillet.__init__
Trim(name, objects) ==
    /\ Running
    /\ IF ValidateInputs # "none" THEN Fail(name, "REPLACE", objects, ValidateInputs)
       ELSE IF Cur.kind \in {"BuildPart", "BuildSketch"}
       THEN IF Cur.obj.isNone THEN Fail(name, "REPLACE", objects, "AttributeError")
            ELSE LET new == IF Cur.kind = "BuildPart" THEN TrimmedPart(Cur, objects)
                            ELSE TrimmedSketch(Cur, objects)
                 IN Finish(name, "REPLACE", objects, <<new>>,
                           AddToContext(Cur, <<new>>, "REPLACE"))
       ELSE Fail(name, "REPLACE", objects, "RuntimeError")
    /\ UNCHANGED locstack

\* Chamfer(*objects, length=length)
Chamfer(objects) == Trim("Chamfer", objects)

\* Fillet(*objects, radius=radius)
Fillet(objects) == Trim("Fillet", objects)

\* if not objects: objects = [context._obj]
Defaulted(objects) == IF objects = <<>> THEN <<ObjShape(Cur)>> ELSE objects

HasNone(objects) == \E i \in DOMAIN objects : objects[i].kind = "None"

MirrorObjects == {<<>>, <<FaceB>>, <<EdgeA, WireAB>>}

Mirrored(objects) == [i \in DOMAIN objects |-> MapPts(objects[i], MirrorPts)]

\* Mirror(*objects, about=about, mode=mode)
Mirror(objects, mode) ==
    /\ Running
    /\ IF ValidateInputs # "none" THEN Fail("Mirror", mode, objects, ValidateInputs)
       ELSE IF objects = <<>> /\ Cur.kind = "TestBuilder"
       THEN Fail("Mirror", mode, objects, "AttributeError")
       ELSE IF HasNone(Defaulted(objects))
       THEN Fail("Mirror", mode, objects, "ValueError")
       ELSE Finish("Mirror", mode, objects, Mirrored(Defaulted(objects)),
                   AddToContext(Cur, Mirrored(Defaulted(objects)), mode))
    /\ UNCHANGED locstack

OffsetObjects == {<<>>, <<EdgeA>>, <<EdgeA, EdgeB>>, <<FaceA>>, <<SolidA>>, <<CompoundAB>>}

OffsetEdges(objects) == OfKind(objects, "Edge") \o FromCompounds(objects, "Edge")

\* new_wires + new_faces + new_solids of Offset.__init__
OffsetNew(objects) ==
    LET edges == OffsetEdges(objects)
        faces == FromCompounds(objects, "Face") \o OfKind(objects, "Face")
        solids == FromCompounds(objects, "Solid") \o OfKind(objects, "Solid")
        new_wires == IF edges = <<>> THEN <<>>
                     ELSE <<Group("Wire",
                                  <<Shape("Edge", OffsetPts(UNION PtsOf(edges)))>>)>>
    IN new_wires
       \o [i \in DOMAIN faces |-> MapPts(faces[i], OffsetPts)]
       \o [i \in DOMAIN solids |-> MapPts(solids[i], ShellPts)]

AnyEdgeCount(edges) == FALSE

\* if len(edges) == 1: raise ValueError("At least two edges are required")
TooFewEdges(edges) == Len(edges) = 1

\* Offset(*objects, amount=amount, mode=mode)
Offset(objects, mode) ==
    /\ Running
    /\ IF ValidateInputs # "none" THEN Fail("Offset", mode, objects, ValidateInputs)
       ELSE IF objects = <<>> /\ Cur.kind = "TestBuilder"
       THEN Fail("Offset", mode, objects, "AttributeError")
       ELSE IF TooFewEdges(OffsetEdges(Defaulted(objects)))
       THEN Fail("Offset", mode, objects, "ValueError")
       ELSE Finish("Offset", mode, objects, OffsetNew(Defaulted(objects)),
                   AddToContext(Cur, OffsetNew(Defaulted(objects)), mode))
    /\ UNCHANGED locstack

ScaleObjects == {<<>>, <<FaceA>>, <<EdgeA>>}

Scaled(objects) == [i \in DOMAIN objects |-> MapPts(objects[i], ScalePts)]

\* Scale(*objects, by=by, mode=mode); byOk: by is a number or a triple of numbers
Scale(objects, byOk, mode) ==
    /\ Running
    /\ IF ValidateInputs # "none" THEN Fail("Scale", mode, objects, ValidateInputs)
       ELSE IF objects = <<>> /\ Cur.kind = "TestBuilder"
       THEN Fail("Scale", mode, objects, "AttributeError")
       ELSE IF ~byOk THEN Fail("Scale", mode, objects, "ValueError")
       ELSE IF HasNone(Defaulted(objects))
       THEN Fail("Scale", mode, objects, "AttributeError")
       ELSE Finish("Scale", mode, objects, Scaled(Defaulted(objects)),
                   AddToContext(Cur, Scaled(Defaulted(objects)), mode))
    /\ UNCHANGED locstack

SplitObjects == {<<>>, <<FaceB>>, <<SolidB, EdgeA>>}
Keeps == {"TOP", "BOTTOM", "BOTH"}

\* obj.intersect(*cutters)
Halved(P, keep) ==
    CASE keep = "TOP" -> TopHalf(P)
      [] keep = "BOTTOM" -> BottomHalf(P)
      [] OTHER -> TopHalf(P) \cup BottomHalf(P)

SplitNew(objects, keep) ==
    [i \in DOMAIN objects |-> MapPts(objects[i], LAMBDA P : Halved(P, keep))]

\* Split(*objects, bisect_by=plane, keep=keep, mode=mode)
Split(objects, keep, mode) ==
    /\ Running
    /\ IF ValidateInputs # "none" THEN Fail("Split", mode, objects, ValidateInputs)
       ELSE IF objects = <<>> /\ Cur.kind = "TestBuilder"
       THEN Fail("Split", mode, objects, "AttributeError")
       ELSE IF HasNone(Defaulted(objects))
       THEN Fail("Split", mode, objects, "AttributeError")
       ELSE Finish("Split", mode, objects, SplitNew(Defaulted(objects), keep),
                   AddToContext(Cur, SplitNew(Defaulted(objects), keep), mode))
    /\ UNCHANGED locstack

\* ------------------------------------------------------------------ cq3.py

Cq3Modes == {"ADDITION", "SUBTRACTION", "INTERSECTION", "CONSTRUCTION"}

PlaneXY == 0        \* Plane.named("XY"): the frame at the origin
PlaneUp == PlaneXY + 4   \* a second working plane, away from the first

\* a dict: d[k] = v
Put(d, k, v) == [i \in DOMAIN d \cup {k} |-> IF i = k THEN v ELSE d[i]]

\* Build3D.__init__
NewBuild3D ==
    [made |-> TRUE, open |-> TRUE, working_solid |-> None, workplanes |-> <<PlaneXY>>,
     pending_faces |-> [i \in {0} |-> <<>>],
     pending_edges |-> [i \in {0} |-> <<>>],
     locations |-> [i \in {0} |-> <<>>],
     last_faces |-> {}]

\* Build2D.__init__: an empty compound, no locations
NewBuild2D(parent, m) ==
    [made |-> TRUE, open |-> TRUE, working_surface |-> {}, pending_edges |-> <<>>,
     parent |-> parent, locations |-> <<>>, mode |-> m]

\* Build1D.__init__
NewBuild1D(parent, m) ==
    [made |-> TRUE, open |-> TRUE, edge_list |-> <<>>, parent |-> parent, mode |-> m]

\* before the one Build3D, Build2D and Build1D of a run are constructed
NoBuild3D == [NewBuild3D EXCEPT !.made = FALSE, !.open = FALSE]
NoBuild2D == [NewBuild2D("None", "ADDITION") EXCEPT !.made = FALSE, !.open = FALSE]
NoBuild1D == [NewBuild1D("None", "ADDITION") EXCEPT !.made = FALSE, !.open = FALSE]

Running3 == prog = "cq3" /\ err = "none" /\ nops < MaxOps

\* the statements of a with block call the builder of that block
In3 == b3.open /\ ~b2.open /\ ~b1.open
In2 == b2.open /\ ~b1.open
In1 == b1.open

Last3(name, mode, objs, locs, merged) ==
    [op |-> name, mode |-> mode, objs |-> objs, locs |-> locs, merged |-> merged,
     exited |-> last.exited]

\* a constructor ran: a builder exists, nothing was done with it yet
Made3(name, mode) ==
    /\ last' = Last3(name, mode, <<>>, <<>>, <<>>)
    /\ UNCHANGED <<prog, stack, locstack, err, nops>>

Step3(name, mode, objs, locs, merged, e) ==
    /\ err' = e
    /\ last' = Last3(name, mode, objs, locs, merged)
    /\ nops' = nops + 1
    /\ UNCHANGED <<prog, stack, locstack>>

\* with Build3D() as s:
New3D ==
    /\ prog = "cq3" /\ err = "none" /\ ~b3.made /\ ~b2.made /\ ~b1.made
    /\ b3' = NewBuild3D
    /\ Made3("Build3D", "")
    /\ UNCHANGED <<b2, b1>>

\* with Build2D(parent, mode) as f: the parent is the open Build3D, if any
New2D(m) ==
    /\ prog = "cq3" /\ err = "none" /\ ~b2.made /\ ~b1.made
    /\ b2' = NewBuild2D(IF b3.open THEN "b3" ELSE "None", m)
    /\ Made3("Build2D", m)
    /\ UNCHANGED <<b3, b1>>

\* with Build1D(parent, mode) as e: the parent is the open Build2D, if any
New1D(m) ==
    /\ prog = "cq3" /\ err = "none" /\ ~b1.made
    /\ b1' = NewBuild1D(IF b2.open THEN "b2" ELSE "None", m)
    /\ Made3("Build1D", m)
    /\ UNCHANGED <<b3, b2>>

Cq3Locations == {<<2>>, <<0, 2>>}

\* Build2D.push_locations(*pts)
B2PushLocations(locs) ==
    /\ Running3 /\ In2
    /\ Len(b2.locations) < 2
    /\ b2' = [b2 EXCEPT !.locations = @ \o locs]
    /\ Step3("push_locations", "", <<>>, locs, <<>>, "none")
    /\ UNCHANGED <<b3, b1>>

\* the locations place_face uses: the identity when none was pushed
PlaceFaceLocations(b) == IF b.locations = <<>> THEN <<Identity>> ELSE b.locations

\* the boolean step of Build2D.place_face: no test for an empty target
PlaceFaceSurface(surface, new_faces, mode) ==
    CASE mode = "ADDITION" -> Fuse(surface, MakeCompound(new_faces))
      [] mode = "SUBTRACTION" -> Cut(surface, MakeCompound(new_faces))
      [] mode = "INTERSECTION" -> Intersect(surface, MakeCompound(new_faces))
      [] OTHER -> surface

\* Build2D.place_face(face, mode): the builder afterwards
PlaceFace(b, face, mode) ==
    [b EXCEPT !.working_surface =
                 PlaceFaceSurface(@, Broadcast(<<face>>, PlaceFaceLocations(b)), mode),
              !.locations = <<>>]

\* Build2D.add / rect / circle: all of them are place_face
B2Add(face, mode) ==
    /\ Running3 /\ In2
    /\ b2' = PlaceFace(b2, face, mode)
    /\ Step3("place_face", mode, <<face>>, PlaceFaceLocations(b2),
             Broadcast(<<face>>, PlaceFaceLocations(b2)), "none")
    /\ UNCHANGED <<b3, b1>>

\* Build3D.add on one workplane (python index i): one placement per location of
\* that plane; a Face is staged as a face, anything else as an edge
\* (r is the builder so far and the error raised, if any)
Add3Plane(r, i, obj) ==
    IF r.err # "none" THEN r
    ELSE LET locs == r.b.locations[i]
             placed == [j \in DOMAIN locs |->
                          Moved(obj, locs[j] + r.b.workplanes[i + 1])]
         IN IF locs = <<>> THEN r
            ELSE IF obj.kind = "Face"
            THEN IF i \in DOMAIN r.b.pending_faces
                 THEN Ok([r.b EXCEPT !.pending_faces[i] = @ \o placed])
                 ELSE Raise(r.b, "KeyError")
            ELSE IF i \in DOMAIN r.b.pending_edges
                 THEN Ok([r.b EXCEPT !.pending_edges[i] = @ \o placed])
                 ELSE Raise(r.b, "KeyError")

RECURSIVE Add3From(_, _, _)
Add3From(r, i, obj) ==
    IF i >= Len(r.b.workplanes) THEN r
    ELSE Add3From(Add3Plane(r, i, obj), i + 1, obj)

\* Build3D.add(obj, mode): the dict self.locations is never empty, so no identity
\* location is ever supplied
Build3DAdd(b, obj) == Add3From(Ok(b), 0, obj)

\* number of placements Build3D.add made
Staged(b) ==
    LET n(d) == IF DOMAIN d = {} THEN 0
                ELSE LET RECURSIVE sum(_)
                         sum(S) == IF S = {} THEN 0
                                   ELSE LET k == CHOOSE k \in S : TRUE
                                        IN Len(d[k]) + sum(S \ {k})
                     IN sum(DOMAIN d)
    IN n(b.pending_faces) + n(b.pending_edges)

\* s.add(obj)
B3Add(obj) ==
    /\ Running3 /\ In3
    /\ Staged(b3) < 4
    /\ b3' = Build3DAdd(b3, obj).b
    /\ Step3("Build3D.add", "ADDITION", <<obj>>, <<>>, <<>>, Build3DAdd(b3, obj).err)
    /\ UNCHANGED <<b2, b1>>

\* Build3D.push_locations(*pts)
B3PushLocations(locs) ==
    /\ Running3 /\ In3
    /\ \A i \in DOMAIN b3.locations : Len(b3.locations[i]) < 2
    /\ b3' = [b3 EXCEPT !.locations =
                 [i \in DOMAIN @ |-> IF i < Len(b3.workplanes)
                                     THEN @[i] \o locs ELSE @[i]]]
    /\ Step3("Build3D.push_locations", "", <<>>, locs, <<>>, "none")
    /\ UNCHANGED <<b2, b1>>

\* Build3D.workplane(workplane, replace)
Workplane(plane, replace) ==
    /\ Running3 /\ In3
    /\ Len(b3.workplanes) < 2
    /\ b3' = IF replace THEN [b3 EXCEPT !.workplanes = <<plane>>]
             ELSE [b3 EXCEPT !.workplanes = Append(@, plane),
                             !.locations = Put(@, Len(b3.workplanes), <<Identity>>)]
    /\ Step3("workplane", "", <<>>, <<>>, <<>>, "none")
    /\ UNCHANGED <<b2, b1>>

PlaceSolidsPopOnly(b, new_solids, mode) ==
    CASE mode = "ADDITION" ->
            IF b.working_solid.isNone
            THEN IF new_solids = <<>> THEN Raise(b, "IndexError")
                 ELSE Ok([b EXCEPT !.working_solid =
                             Some(MakeCompound(<<new_solids[Len(new_solids)]>>))])
            ELSE Ok([b EXCEPT !.working_solid =
                        Some(Fuse(@.ents, MakeCompound(new_solids)))])
      [] mode = "SUBTRACTION" ->
            IF b.working_solid.isNone THEN Raise(b, "ValueError")
            ELSE Ok([b EXCEPT !.working_solid =
                        Some(Cut(@.ents, MakeCompound(new_solids)))])
      [] mode = "INTERSECTION" ->
            IF b.working_solid.isNone THEN Raise(b, "ValueError")
            ELSE Ok([b EXCEPT !.working_solid =
                        Some(Intersect(@.ents, MakeCompound(new_solids)))])
      [] OTHER -> Ok(b)

\* the boolean step of Build3D.place_solids
PlaceSolidsStep(b, new_solids, mode) ==
    CASE mode = "ADDITION" ->
            IF b.working_solid.isNone
            THEN IF new_solids = <<>> THEN Raise(b, "IndexError")
                 ELSE Ok([b EXCEPT !.working_solid =
                             Some(MergeOverlapping(MakeCompound(new_solids)))])
            ELSE Ok([b EXCEPT !.working_solid =
                        Some(Fuse(@.ents, MakeCompound(new_solids)))])
      [] mode = "SUBTRACTION" ->
            IF b.working_solid.isNone THEN Raise(b, "ValueError")
            ELSE Ok([b EXCEPT !.working_solid =
                        Some(Cut(@.ents, MakeCompound(new_solids)))])
      [] mode = "INTERSECTION" ->
            IF b.working_solid.isNone THEN Raise(b, "ValueError")
            ELSE Ok([b EXCEPT !.working_solid =
                        Some(Intersect(@.ents, MakeCompound(new_solids)))])
      [] OTHER -> Ok(b)

\* Build3D.place_solids(new_solids, mode): the step, then the delta, which reads
\* the working solid even when there is none
PlaceSolids(b, new_solids, mode) ==
    LET r == PlaceSolidsStep(b, new_solids, mode)
    IN IF r.err # "none" THEN r
       ELSE IF r.b.working_solid.isNone THEN Raise(r.b, "AttributeError")
       ELSE Ok([r.b EXCEPT !.last_faces =
                       Delta(EntsOf(b.working_solid), r.b.working_solid.ents)])

Cq3Solids == {<<>>, <<SolidA>>, <<SolidB>>, <<SolidA, Moved(SolidA, 2)>>}

\* s.place_solids(new_solids, mode)
B3PlaceSolids(new_solids, mode) ==
    /\ Running3 /\ In3
    /\ b3' = PlaceSolids(b3, new_solids, mode).b
    /\ Step3("place_solids", mode, new_solids, <<>>, new_solids,
             PlaceSolids(b3, new_solids, mode).err)
    /\ UNCHANGED <<b2, b1>>

\* the working surface as the Compound it is
SurfaceShape(b) ==
    Group("Compound", [i \in DOMAIN SetToSeq(b.working_surface) |->
                         Shape("Face", SetToSeq(b.working_surface)[i])])

\* Build2D.__exit__: with a parent, parent.add(working_surface, mode)
Exit2D ==
    /\ prog = "cq3" /\ In2
    /\ b2' = [b2 EXCEPT !.open = FALSE]
    /\ IF b2.parent = "None"
       THEN /\ b3' = b3
            /\ err' = err
            /\ last' = Last3("Build2D.__exit__", b2.mode, <<SurfaceShape(b2)>>, <<>>, <<>>)
       ELSE /\ b3' = Build3DAdd(b3, SurfaceShape(b2)).b
            /\ err' = IF Build3DAdd(b3, SurfaceShape(b2)).err # "none"
                      THEN Build3DAdd(b3, SurfaceShape(b2)).err ELSE err
            /\ last' = Last3("Build2D.__exit__", b2.mode, <<SurfaceShape(b2)>>, <<>>,
                             <<SurfaceShape(b2)>>)
    /\ UNCHANGED <<prog, stack, locstack, nops, b1>>

Cq3Edges == {<<EdgeA>>, <<EdgeA, EdgeB>>}

\* Build1D.polyline(*pts, mode=mode)
Polyline(new_edges) ==
    /\ Running3 /\ In1
    /\ Len(b1.edge_list) < 2
    /\ b1' = [b1 EXCEPT !.edge_list = @ \o new_edges]
    /\ Step3("polyline", "ADDITION", new_edges, <<>>, <<>>, "none")
    /\ UNCHANGED <<b3, b2>>

\* Face.makeFromWires(Wire.assembleEdges(edge_list))
FaceOfEdges(edges) == Shape("Face", UNION PtsOf(edges))

\* Build1D.__exit__: self.parent.add(pending_face, self.mode), parent or not.
\* (With no edge at all the kernel has no wire to assemble.)
Exit1D ==
    /\ prog = "cq3" /\ In1
    /\ b1' = [b1 EXCEPT !.open = FALSE]
    /\ IF b1.edge_list = <<>>
       THEN /\ b2' = b2
            /\ err' = "KernelError"
            /\ last' = Last3("Build1D.__exit__", b1.mode, <<>>, <<>>, <<>>)
       ELSE IF b1.parent = "None"
       THEN /\ b2' = b2
            /\ err' = "AttributeError"
            /\ last' = Last3("Build1D.__exit__", b1.mode,
                             <<FaceOfEdges(b1.edge_list)>>, <<>>, <<>>)
       ELSE /\ b2' = PlaceFace(b2, FaceOfEdges(b1.edge_list), b1.mode)
            /\ err' = err
            /\ last' = Last3("Build1D.__exit__", b1.mode,
                             <<FaceOfEdges(b1.edge_list)>>, PlaceFaceLocations(b2),
                             <<FaceOfEdges(b1.edge_list)>>)
    /\ UNCHANGED <<prog, stack, locstack, nops, b3>>

\* Build3D.__exit__ does nothing
Exit3D ==
    /\ prog = "cq3" /\ In3
    /\ b3' = [b3 EXCEPT !.open = FALSE]
    /\ last' = Last3("Build3D.__exit__", "", <<>>, <<>>, <<>>)
    /\ UNCHANGED <<prog, stack, locstack, err, nops, b2, b1>>

\* Build3D.push_locations(*pts): the builder afterwards
PushLocations(b, locs) ==
    [b EXCEPT !.locations =
        [i \in DOMAIN @ |-> IF i < Len(b.workplanes) THEN @[i] \o locs ELSE @[i]]]

\* Build3D.workplane(workplane, replace): the builder afterwards
WorkplaneAfter(b, plane, replace) ==
    IF replace THEN [b EXCEPT !.workplanes = <<plane>>]
    ELSE [b EXCEPT !.workplanes = Append(@, plane),
                   !.locations = Put(@, Len(b.workplanes), <<Identity>>)]

\* Plane(origin=face.Center(), normal=face.normalAt(face.Center()))
PlaneOfFace(face) == (Min(face.pts) + Max(face.pts)) \div 2

\* for face in faces: self.workplane(new_plane, replace)
RECURSIVE PlanesOfFaces(_, _, _)
PlanesOfFaces(b, faces, replace) ==
    IF faces = <<>> THEN b
    ELSE PlanesOfFaces(WorkplaneAfter(b, PlaneOfFace(Head(faces)), replace),
                       Tail(faces), replace)

WorkplaneFaces == {<<FaceA>>, <<FaceA, Moved(FaceB, 2)>>}

\* Build3D.faces_to_workplanes(*faces, replace=replace)
FacesToWorkplanes(faces, replace) ==
    /\ Running3 /\ In3
    /\ replace \/ Len(b3.workplanes) + Len(faces) <= 2
    /\ b3' = PlanesOfFaces(b3, faces, replace)
    /\ Step3("faces_to_workplanes", "", faces, <<>>, <<>>, "none")
    /\ UNCHANGED <<b2, b1>>

\* what an operation of Build3D made and what it returned to its caller
Returned(name, mode, new_solids, ret) ==
    [op |-> name, mode |-> mode, objs |-> <<>>, locs |-> <<>>, merged |-> new_solids,
     exited |-> last.exited, ret |-> ret]

\* the caller's list after place_solids: with ADDITION and no working solid, a
\* list of other than one solid lost its last one to new_solids.pop()
SolidsLeft(b, new_solids, mode) ==
    IF mode = "ADDITION" /\ b.working_solid.isNone /\ Len(new_solids) # 1
    THEN SubSeq(new_solids, 1, Len(new_solids) - 1)
    ELSE new_solids

\* self.place_solids(new_solids, mode, clean)
\* return new_solids[0] if len(new_solids) == 1 else new_solids
PlaceAndReturn(name, new_solids, mode) ==
    /\ b3' = PlaceSolids(b3, new_solids, mode).b
    /\ err' = PlaceSolids(b3, new_solids, mode).err
    /\ last' = Returned(name, mode, new_solids,
                        IF PlaceSolids(b3, new_solids, mode).err = "none"
                        THEN SolidsLeft(b3, new_solids, mode) ELSE <<>>)
    /\ nops' = nops + 1
    /\ UNCHANGED <<prog, stack, locstack, b2, b1>>

\* Solid.extrudeLinear(face, zDir * until, 0): the solid that stands on the face
ExtrudeLinear(face) == Shape("Solid", face.pts)

\* the solids of extrude: for every entry of the dict of pending faces, in the
\* order of its keys, one per face, and one more the other way with both
ExtrudeSolids(b, both) ==
    Flatten([k \in 1..Cardinality(DOMAIN b.pending_faces) |->
               Flatten([j \in DOMAIN b.pending_faces[k - 1] |->
                          IF both
                          THEN <<ExtrudeLinear(b.pending_faces[k - 1][j]),
                                 ExtrudeLinear(b.pending_faces[k - 1][j])>>
                          ELSE <<ExtrudeLinear(b.pending_faces[k - 1][j])>>])])

\* Build3D.extrude(until, both=both, mode=mode)
Extrude(both, mode) ==
    /\ Running3 /\ In3
    /\ PlaceAndReturn("extrude", ExtrudeSolids(b3, both), mode)

\* Solid.revolve(face, 360, axis) about the local y axis of the plane at w: the
\* face swept to the other side of the axis
RevolvePts(P, w) == P \cup {2 * w - p - 1 : p \in P}

\* the solids of revolve, plane by plane (python index i); self.pending_faces[i]
\* of a plane without an entry raises KeyError
RECURSIVE RevolveFrom(_, _, _)
RevolveFrom(b, i, solids) ==
    IF i >= Len(b.workplanes) THEN [solids |-> solids, err |-> "none"]
    ELSE IF i \notin DOMAIN b.pending_faces THEN [solids |-> solids, err |-> "KeyError"]
    ELSE RevolveFrom(b, i + 1,
                     solids \o [j \in DOMAIN b.pending_faces[i] |->
                                  Shape("Solid", RevolvePts(b.pending_faces[i][j].pts,
                                                            b.workplanes[i + 1]))])

\* Build3D.revolve(mode=mode)
Revolve(mode) ==
    /\ Running3 /\ In3
    /\ IF RevolveFrom(b3, 0, <<>>).err # "none"
       THEN /\ b3' = b3
            /\ Step3("revolve", mode, <<>>, <<>>, <<>>, RevolveFrom(b3, 0, <<>>).err)
            /\ UNCHANGED <<b2, b1>>
       ELSE PlaceAndReturn("revolve", RevolveFrom(b3, 0, <<>>).solids, mode)

\* Build3D.loft(mode=mode): self.faces is the method faces(), and self.faces[i]
\* raises TypeError on the first plane
Loft(mode) ==
    /\ Running3 /\ In3
    /\ b3' = b3
    /\ Step3("loft", mode, <<>>, <<>>, <<>>, "TypeError")
    /\ UNCHANGED <<b2, b1>>

\* ------------------------------------------------------------------ the state machine

Init ==
    /\ prog \in {"build123d", "cq3"}
    /\ stack = <<>>
    /\ locstack = <<>>
    /\ err = "none"
    /\ last = NoOp
    /\ nops = 0
    /\ b3 = NoBuild3D
    /\ b2 = NoBuild2D
    /\ b1 = NoBuild1D

LocationSets == {<<2>>, <<0, 2>>}
CircleFaceChoices == {FaceA, FaceB}
NestedModes == {"ADD", "SUBTRACT", "PRIVATE"}
ScopeObjects == {<<FaceA>>, <<EdgeA, SolidB>>}

\* with Builder(): at the top level (its mode is never used: there is no parent)
EnterRoot(k) == stack = <<>> /\ Enter(k, "ADD")

\* what a builder builds: lines (1), sketches (2), parts (3)
Dimension(k) == CASE k = "BuildLine" -> 1 [] k = "BuildSketch" -> 2 [] OTHER -> 3

\* with Builder(mode=m): inside a builder of the same or a higher dimension,
\* which can take the result
EnterNested(k, m) ==
    /\ IF HasContext THEN Dimension(k) <= Dimension(Cur.kind) ELSE FALSE
    /\ Enter(k, m)

RealKinds == BuilderKinds \ {"TestBuilder"}

\* The calls a cq3.py script makes.
NextCq3 ==
    \/ New3D
    \/ \E m \in {"ADDITION", "SUBTRACTION"} : New2D(m)
    \/ \E m \in Cq3Modes : New1D(m)
    \/ \E locs \in Cq3Locations : B2PushLocations(locs)
    \/ \E f \in CircleFaceChoices, m \in Cq3Modes : B2Add(f, m)
    \/ \E o \in {FaceA, EdgeA} : B3Add(o)
    \/ \E locs \in Cq3Locations : B3PushLocations(locs)
    \/ \E r \in BOOLEAN : Workplane(PlaneUp, r)
    \/ \E s \in Cq3Solids, m \in Cq3Modes : B3PlaceSolids(s, m)
    \/ Exit2D
    \/ \E e \in Cq3Edges : Polyline(e)
    \/ Exit1D
    \/ Exit3D

\* The builder scopes of build123d with the objects created in them, and
\* cq3.py.
Next ==
    \/ \E k \in RealKinds : EnterRoot(k)
    \/ \E k \in RealKinds, m \in NestedModes : EnterNested(k, m)
    \/ Exit
    \/ Unwind
    \/ Catch
    \/ \E o \in ScopeObjects, m \in Modes : Add(o, m)
    \/ \E f \in CircleFaceChoices, m \in Modes : Circle(f, m)
    \/ NextCq3

Spec == Init /\ [][Next]_vars

\* The generic operations of build123d on one builder.
InitOps == Init /\ prog = "build123d"

NextOps ==
    \/ \E k \in BuilderKinds : EnterRoot(k)
    \/ Exit
    \/ Unwind
    \/ Catch
    \/ \E o \in AddObjects, m \in Modes : Add(o, m)
    \/ \E f \in CircleFaceChoices, m \in Modes : Circle(f, m)
    \/ \E o \in BoxObjects, m \in Modes : BoundingBox(o, m)
    \/ \E o \in TrimObjects : Chamfer(o)
    \/ \E o \in TrimObjects : Fillet(o)
    \/ \E o \in MirrorObjects, m \in Modes : Mirror(o, m)
    \/ \E o \in OffsetObjects, m \in Modes : Offset(o, m)
    \/ \E o \in ScaleObjects, ok \in BOOLEAN, m \in Modes : Scale(o, ok, m)
    \/ \E o \in SplitObjects, k \in Keeps, m \in Modes : Split(o, k, m)

SpecOps == InitOps /\ [][NextOps]_vars

\* The Locations scopes of build123d inside one builder, and the locations
\* pushed in cq3.py.
NextLocations ==
    \/ \E k \in RealKinds : EnterRoot(k)
    \/ Exit
    \/ \E locs \in LocationSets : EnterLocations(locs)
    \/ ExitLocations
    \/ Unwind
    \/ Catch
    \/ \E o \in ScopeObjects, m \in Modes : Add(o, m)
    \/ \E f \in CircleFaceChoices, m \in Modes : Circle(f, m)
    \/ NextCq3

SpecLocations == Init /\ [][NextLocations]_vars

SketchObjects == {<<FaceB>>, <<EdgeA>>, <<WireAB>>}
PerimeterEdges == {<<>>, <<EdgeA>>, <<EdgeA, EdgeB>>}

\* A sketch and the lines drawn in it, consolidated by BuildFace and BuildHull.
NextSketch ==
    \/ EnterRoot("BuildSketch")
    \/ EnterNested("BuildLine", "ADD")
    \/ Exit
    \/ Unwind
    \/ Catch
    \/ \E o \in SketchObjects, m \in Modes : Add(o, m)
    \/ \E e \in PerimeterEdges, m \in Modes : BuildFace(e, m)
    \/ \E e \in PerimeterEdges, m \in Modes : BuildHull(e, m)

SpecSketch == InitOps /\ [][NextSketch]_vars

\* the mode of an operation when the caller gives none: the default of the
\* mode parameter in its signature
DefaultMode(op) == IF op \in {"Offset", "Scale", "Split"} THEN "REPLACE" ELSE "ADD"

\* The objects and operations that take a mode, each called without one.
NextDefaults ==
    \/ \E k \in RealKinds : EnterRoot(k)
    \/ Exit
    \/ Unwind
    \/ Catch
    \/ \E o \in ScopeObjects : Add(o, DefaultMode("Add"))
    \/ \E f \in CircleFaceChoices : Circle(f, DefaultMode("Circle"))
    \/ \E o \in BoxObjects : BoundingBox(o, DefaultMode("BoundingBox"))
    \/ \E o \in MirrorObjects : Mirror(o, DefaultMode("Mirror"))
    \/ \E o \in OffsetObjects : Offset(o, DefaultMode("Offset"))
    \/ \E o \in ScaleObjects, ok \in BOOLEAN : Scale(o, ok, DefaultMode("Scale"))
    \/ \E o \in SplitObjects, k \in Keeps : Split(o, k, DefaultMode("Split"))

SpecDefaults == InitOps /\ [][NextDefaults]_vars

StagedLocations == {<<0>>, <<0, 2>>}
StagedFaces == {<<>>, <<FaceA>>, <<FaceA, FaceB>>}

\* s.add(face) for each of faces, in turn
RECURSIVE AddAll(_, _)
AddAll(b, faces) ==
    IF faces = <<>> THEN b ELSE AddAll(Build3DAdd(b, Head(faces)).b, Tail(faces))

\* with Build3D() as s: s.push_locations(*locs), then s.add(face) for some faces
StagedBuild3D(locs, faces) == AddAll(PushLocations(NewBuild3D, locs), faces)

PartObjects ==
    {<<SolidA>>, <<SolidB, Moved(SolidB, 1)>>, <<SolidA, Moved(SolidA, 2)>>,
     <<Group("Compound", <<SolidB, Moved(SolidA, 3)>>)>>, <<FaceA>>}
PartSolids ==
    {<<>>, <<Moved(SolidA, 4)>>, <<Moved(SolidB, 1)>>, <<SolidB, Moved(SolidB, 1)>>,
     <<SolidA, Moved(SolidA, 2)>>}

\* A part builder: BuildPart with the solids added to it, or Build3D with faces
\* staged on its workplanes (the operations counted are those that follow).
InitPart ==
    /\ prog \in {"build123d", "cq3"}
    /\ stack = <<>>
    /\ locstack = <<>>
    /\ err = "none"
    /\ last = NoOp
    /\ nops = 0
    /\ b3 \in IF prog = "build123d" THEN {NoBuild3D}
              ELSE {NoBuild3D} \cup {StagedBuild3D(locs, faces) :
                                       locs \in StagedLocations, faces \in StagedFaces}
    /\ b2 = NoBuild2D
    /\ b1 = NoBuild1D

NextPart ==
    \/ EnterRoot("BuildPart")
    \/ Exit
    \/ Unwind
    \/ Catch
    \/ \E o \in PartObjects, m \in Modes : Add(o, m)
    \/ New3D
    \/ \E o \in {FaceA, EdgeA} : B3Add(o)
    \/ \E locs \in Cq3Locations : B3PushLocations(locs)
    \/ \E r \in BOOLEAN : Workplane(PlaneUp, r)
    \/ \E f \in WorkplaneFaces, r \in BOOLEAN : FacesToWorkplanes(f, r)
    \/ \E s \in PartSolids, m \in Cq3Modes : B3PlaceSolids(s, m)
    \/ \E both \in BOOLEAN, m \in Cq3Modes : Extrude(both, m)
    \/ \E m \in Cq3Modes : Revolve(m)
    \/ \E m \in Cq3Modes : Loft(m)
    \/ Exit3D

SpecPart == InitPart /\ [][NextPart]_vars

\* ------------------------------------------------------------------ properties

\* A step that ran an operation (an object creation, a generic operation, or a
\* method of a cq3 builder).
OpStep == nops' # nops

EmptyTargetModes == {"SUBTRACT", "INTERSECT", "SUBTRACTION", "INTERSECTION"}

\* the step merged something into a BuildSketch that held nothing
SketchMergeIntoNone ==
    /\ prog = "build123d" /\ OpStep /\ HasContext
    /\ Cur.kind = "BuildSketch" /\ Cur.obj.isNone
    /\ last'.op \in {"Add", "Circle"} /\ last'.merged # <<>>

\* the step was Build2D.place_face on an empty working surface
PlaceFaceIntoNone ==
    /\ prog = "cq3" /\ OpStep /\ last'.op = "place_face" /\ b2.working_surface = {}

\* the step was Build3D.place_solids of some solids with no working solid
PlaceSolidsIntoNone ==
    /\ prog = "cq3" /\ OpStep /\ last'.op = "place_solids"
    /\ b3.working_solid.isNone /\ last'.merged # <<>>

\* C1 (as claimed): a merge with mode SUBTRACT or INTERSECT into a builder whose
\* result is empty always raises an error, whatever is merged, in
\* BuildSketch._add_to_context, Build2D.place_face and Build3D.place_solids.
C1_EmptyTargetAlwaysFails ==
    [][(/\ SketchMergeIntoNone \/ PlaceFaceIntoNone \/ PlaceSolidsIntoNone
        /\ last'.mode \in EmptyTargetModes)
       => err' # "none"]_vars

\* C2: an object creation or generic operation called while no builder is
\* active raises RuntimeError and leaves the builders and the locations as they
\* were, at the start as well as after the builders entered before have exited.
C2_NoBuilderFails ==
    [][(prog = "build123d" /\ OpStep /\ ~HasContext)
       => (err' = "RuntimeError" /\ stack' = stack /\ locstack' = locstack)]_vars

\* C2 happens: Scale was called after the last builder had exited, and failed.
C2_Witness ==
    /\ ~HasContext /\ last.exited
    /\ last.op = "Scale" /\ err = "RuntimeError"

\* C3: builder scopes are LIFO.  Entering a scope puts the new builder on top of
\* the ones already open, an operation leaves every open scope where it is, and
\* leaving a scope (normally, or because an error raised inside it propagates)
\* removes the innermost builder and nothing else, so that its parent (or no
\* builder) is current again.
C3_ScopesAreLifo ==
    [][prog = "build123d" =>
         /\ Len(stack') \in {Len(stack) - 1, Len(stack), Len(stack) + 1}
         /\ \A i \in 1..Len(stack) :
               /\ i < Len(stack') => stack'[i] = stack[i]
               /\ i <= Len(stack') => /\ stack'[i].kind = stack[i].kind
                                      /\ stack'[i].mode = stack[i].mode
         /\ last'.op = "Exit" => Len(stack') = Len(stack) - 1
         /\ last'.op = "Enter" => Len(stack') = Len(stack) + 1]_vars

\* C3 happens: an error raised in a nested builder has left that builder's
\* scope, and the parent is the current builder again.
C3_Witness ==
    /\ prog = "build123d" /\ last.op = "Exit" /\ err # "none"
    /\ Len(stack) = 1 /\ ~Cur.obj.isNone

\* C4 (as claimed): when a builder nested in a parent exits, the parent's add
\* receives the child's result once with the child's mode; a builder without a
\* parent hands nothing off and its exit raises nothing.
C4_HandoffOnExit ==
    [][prog = "cq3" =>
         /\ (In1 /\ ~b1'.open /\ b1.edge_list # <<>> /\ b1.parent = "b2")
               => b2' = PlaceFace(b2, FaceOfEdges(b1.edge_list), b1.mode)
         /\ (In2 /\ ~b2'.open /\ b2.parent = "b3")
               => b3' = Build3DAdd(b3, SurfaceShape(b2)).b
         /\ (In1 /\ ~b1'.open /\ b1.edge_list # <<>> /\ b1.parent = "None")
               => (err' = err /\ b2' = b2)
         /\ (In2 /\ ~b2'.open /\ b2.parent = "None")
               => (err' = err /\ b3' = b3)]_vars

\* the faces, edges and solids among objects, compounds opened
FacesOf(objects) == OfKind(objects, "Face") \o FromCompounds(objects, "Face")

\* builder b holds instance x after an ADD merge: a face or solid lies within
\* an entity of the result, an edge is pending (BuildSketch, BuildPart) or part
\* of the line (BuildLine); a builder keeps only the kinds it is made of
Holds(b, x) ==
    CASE b.kind = "BuildSketch" /\ x.kind = "Face" ->
            \E e \in EntsOf(b.obj) : x.pts \subseteq e
      [] b.kind = "BuildSketch" /\ x.kind = "Edge" ->
            \E i \in DOMAIN b.pending_edges : b.pending_edges[i] = x
      [] b.kind = "BuildLine" /\ x.kind = "Edge" -> x.pts \in EntsOf(b.obj)
      [] OTHER -> TRUE

\* the step created objects in a BuildSketch or BuildLine (Add, Circle)
CreationStep ==
    /\ prog = "build123d" /\ OpStep /\ HasContext
    /\ Cur.kind \in {"BuildSketch", "BuildLine"}
    /\ last'.op \in {"Add", "Circle"}

PlaceFaceStep == prog = "cq3" /\ OpStep /\ last'.op = "place_face"

\* C5: an object creation given s shapes under n active locations makes n x s
\* located instances, one per (shape, location) pair, and with mode ADD each of
\* them is in the current builder afterwards (Add, Circle, Build2D.place_face).
C5_Broadcast ==
    [][/\ CreationStep =>
            /\ Len(last'.merged) = Len(last'.objs) * Len(CurrentLocations)
            /\ last'.merged = Broadcast(last'.objs, CurrentLocations)
            /\ (last'.mode = "ADD" /\ err' = "none") =>
                  \A i \in DOMAIN last'.merged :
                     Holds(stack'[Len(stack)], last'.merged[i])
       /\ PlaceFaceStep =>
            /\ Len(last'.merged) = Len(last'.objs) * Len(PlaceFaceLocations(b2))
            /\ last'.merged = Broadcast(last'.objs, PlaceFaceLocations(b2))
            /\ last'.mode = "ADDITION" =>
                  \A i \in DOMAIN last'.merged :
                     \E e \in b2'.working_surface : last'.merged[i].pts \subseteq e]_vars

\* C5 happens: Add of two objects under two locations has merged four instances.
C5_Witness ==
    /\ prog = "build123d" /\ last.op = "Add" /\ last.mode = "ADD" /\ err = "none"
    /\ Len(last.objs) = 2 /\ Len(CurrentLocations) = 2
    /\ Len(last.merged) = 4 /\ Len(Cur.pending_edges) = 2

\* C6 (as claimed): with no location pushed the effective location set is the
\* identity alone: Build2D.place_face places the face once, at the identity, and
\* Build3D.add stages the object once on every workplane.
C6_IdentityWhenNonePushed ==
    [][/\ (PlaceFaceStep /\ b2.locations = <<>>) => last'.merged = last'.objs
       /\ (prog = "cq3" /\ OpStep /\ last'.op = "Build3D.add"
             /\ b3.locations[0] = <<>> /\ err' = "none")
            => Staged(b3') = Staged(b3) + Len(b3.workplanes)]_vars

GenericOps ==
    {"Add", "BoundingBox", "Chamfer", "Fillet", "Mirror", "Offset", "Scale", "Split"}

\* C8 (as claimed): when a generic operation raises, the current builder (its
\* result, its pending edges and faces, its locations) and the location sets
\* are what they were before the call.
C8_NoPartialMutation ==
    [][(prog = "build123d" /\ OpStep /\ last'.op \in GenericOps /\ err' # "none")
       => (stack' = stack /\ locstack' = locstack)]_vars

\* operations that hand all their new objects to one merge
SingleMergeOps == {"Add", "Chamfer", "Fillet", "Mirror", "Offset", "Scale", "Split"}

\* the faces of the last merge a step made in a BuildSketch: every face handed
\* over by an operation that merges once, the last one when each is merged alone
LastMergedFaces(l) ==
    IF l.op \in SingleMergeOps THEN FacesOf(l.merged)
    ELSE IF FacesOf(l.merged) = <<>> THEN <<>>
    ELSE <<FacesOf(l.merged)[Len(FacesOf(l.merged))]>>

\* C9: after a merge of new faces with mode REPLACE the sketch consists of the
\* new faces and of nothing else, with or without a result before.
C9_ReplaceKeepsOnlyNew ==
    [][(/\ prog = "build123d" /\ OpStep /\ HasContext /\ Cur.kind = "BuildSketch"
        /\ last'.mode = "REPLACE" /\ err' = "none"
        /\ FacesOf(last'.merged) # <<>>)
       => /\ ~stack'[Len(stack)].obj.isNone
          /\ stack'[Len(stack)].obj.ents = PtsOf(LastMergedFaces(last')) \ {{}}]_vars

\* C9 happens: Chamfer replaced a sketch that was the face {0, 1} by its trimmed
\* face {1}.
C9_Witness ==
    /\ prog = "build123d" /\ HasContext /\ last.op = "Chamfer" /\ err = "none"
    /\ Cur.kind = "BuildSketch" /\ Cur.obj.ents = {{1}}

\* C10: a merge with mode CONSTRUCTION or PRIVATE leaves the result of the
\* builder as it was, and a nested builder of mode PRIVATE leaves its parent as
\* it was when its scope exits (BuildSketch, BuildPart, BuildLine; place_face
\* and place_solids of cq3.py with CONSTRUCTION).
C10_ConstructionAndPrivateKeepResult ==
    [][/\ (prog = "build123d" /\ OpStep /\ HasContext
             /\ last'.mode \in {"CONSTRUCTION", "PRIVATE"})
            => stack'[Len(stack)].obj = Cur.obj
       /\ (prog = "build123d" /\ last'.op = "Exit" /\ Len(stack) >= 2
             /\ Len(stack') = Len(stack) - 1 /\ Cur.mode = "PRIVATE")
            => stack'[Len(stack')] = stack[Len(stack) - 1]
       /\ (prog = "cq3" /\ last'.mode = "CONSTRUCTION"
             /\ last'.op \in {"place_face", "Build1D.__exit__"})
            => b2'.working_surface = b2.working_surface
       /\ (prog = "cq3" /\ last'.mode = "CONSTRUCTION" /\ last'.op = "place_solids")
            => b3'.working_solid = b3.working_solid]_vars

\* C10 happens: a nested PRIVATE builder that held a result has exited, and its
\* parent holds the result it held before.
C10_Witness ==
    /\ prog = "build123d" /\ last.op = "Exit" /\ last.mode = "PRIVATE"
    /\ err = "none" /\ Len(stack) = 1
    /\ last.objs # <<NoneShape>> /\ Cur.obj = Some({{0}})

EdgesOf(objects) ==
    OfKind(objects, "Edge") \o FromCompounds(objects, "Edge")
    \o WireEdges(OfKind(objects, "Wire") \o FromCompounds(objects, "Wire"))

OnlyEdges(objects) ==
    /\ objects # <<>>
    /\ \A i \in DOMAIN objects : objects[i].kind \in {"Edge", "Wire"}

\* what an operation handed to the builder: Add places its objects at every
\* location (under BuildPart the edges are staged, not merged)
HandedOver(l) == IF l.op = "Add" THEN Broadcast(l.objs, l.locs) ELSE l.merged

\* C12: a merge of edges and wires alone into a BuildSketch or BuildPart, in
\* any mode but PRIVATE, raises nothing, leaves the result of the builder as it
\* was and appends exactly those edges (a wire gives its edges) to the pending
\* edges.
C12_EdgesGoToPending ==
    [][(/\ prog = "build123d" /\ OpStep /\ HasContext
        /\ Cur.kind \in {"BuildSketch", "BuildPart"}
        /\ last'.op \in SingleMergeOps /\ last'.mode # "PRIVATE"
        /\ OnlyEdges(HandedOver(last')))
       => /\ err' = "none"
          /\ stack'[Len(stack)].obj = Cur.obj
          /\ stack'[Len(stack)].pending_edges
               = Cur.pending_edges \o EdgesOf(HandedOver(last'))]_vars

\* C12 happens: Mirror with mode SUBTRACT of an edge and a wire of two edges in
\* a sketch that holds nothing has left three pending edges and no result.
C12_Witness ==
    /\ prog = "build123d" /\ HasContext /\ Cur.kind = "BuildSketch"
    /\ last.op = "Mirror" /\ last.mode = "SUBTRACT" /\ err = "none"
    /\ Cur.obj.isNone /\ Len(Cur.pending_edges) = 3

\* the step was a BuildFace or BuildHull that returned
ConsolidationStep ==
    /\ prog = "build123d" /\ OpStep /\ HasContext /\ err' = "none"
    /\ last'.op \in {"BuildFace", "BuildHull"}

\* C13: when BuildFace or BuildHull returns, the sketch has no pending edge
\* left and the face that was built lies in the sketch.
C13_PendingEdgesConsumed ==
    [][ConsolidationStep
       => /\ stack'[Len(stack)].pending_edges = <<>>
          /\ \A i \in DOMAIN last'.merged :
                \E e \in EntsOf(stack'[Len(stack)].obj) : last'.merged[i].pts \subseteq e]_vars

\* C13 happens: BuildHull, given no edges, made the face of the two pending
\* edges of the sketch, and none is pending any more.
C13_Witness ==
    /\ prog = "build123d" /\ HasContext /\ Cur.kind = "BuildSketch"
    /\ last.op = "BuildHull" /\ last.objs = <<>> /\ err = "none"
    /\ Cur.pending_edges = <<>> /\ Cur.obj = Some({{0, 1}})

\* C14 (as claimed): BuildFace(mode=m) and BuildHull(mode=m) merge their face
\* into the sketch under m: cut with SUBTRACT, intersected with INTERSECT,
\* replacing the sketch with REPLACE, leaving the sketch alone with PRIVATE.
C14_FaceMergedUnderCallerMode ==
    [][ConsolidationStep
       => stack'[Len(stack)].obj
            = IF last'.mode = "PRIVATE" THEN Cur.obj
              ELSE SketchBoolean(Cur.obj, last'.merged, last'.mode)]_vars

\* what operation op hands to the merge when it is given the whole result of
\* builder b as its one explicit object (Split: for some keep)
AsIfExplicit(op, b) ==
    LET all == <<ObjShape(b)>>
    IN CASE op = "Add" ->
              {IF b.kind = "BuildPart" THEN AddPartSolids(all) ELSE AddLocated(all)}
         [] op = "BoundingBox" ->
              {Boxes(all, IF b.kind = "BuildPart" THEN "Solid" ELSE "Face")}
         [] op \in {"Chamfer", "Fillet"} ->
              {<<IF b.kind = "BuildPart" THEN TrimmedPart(b, all)
                 ELSE TrimmedSketch(b, all)>>}
         [] op = "Mirror" -> {Mirrored(all)}
         [] op = "Offset" -> {OffsetNew(all)}
         [] op = "Scale" -> {Scaled(all)}
         [] OTHER -> {SplitNew(all, k) : k \in Keeps}

\* C15 (as claimed): a generic operation called with no explicit object in a
\* builder that holds a result works on that whole result, exactly as if the
\* result had been passed as the object (Add, BoundingBox, Chamfer, Fillet,
\* Mirror, Offset, Scale, Split).
C15_NoInputMeansWholeResult ==
    [][(/\ prog = "build123d" /\ OpStep /\ HasContext /\ err' = "none"
        /\ last'.op \in GenericOps /\ last'.objs = <<>> /\ ~Cur.obj.isNone)
       => last'.merged \in AsIfExplicit(last'.op, Cur)]_vars

\* the builders an operation applies to: the classes its code tests for, or
\* the ones its documentation names when the code tests for none
Supported(op) ==
    IF op \in {"BoundingBox", "Chamfer", "Fillet"} THEN {"BuildSketch", "BuildPart"}
    ELSE {"BuildLine", "BuildSketch", "BuildPart"}

\* C16 (as claimed): a generic operation called under a builder it does not
\* apply to raises RuntimeError and leaves the builder as it was.
C16_UnsupportedBuilderFails ==
    [][(/\ prog = "build123d" /\ OpStep /\ HasContext
        /\ last'.op \in GenericOps /\ Cur.kind \notin Supported(last'.op))
       => (err' = "RuntimeError" /\ stack' = stack)]_vars

\* C17 (as claimed): an object creation or generic operation called without a
\* mode merges with ADD, so that every entity the builder held before the call
\* is still covered by its result afterwards.
C17_DefaultModeIsAdd ==
    [][(prog = "build123d" /\ OpStep /\ HasContext /\ err' = "none")
       => /\ last'.mode = "ADD"
          /\ \A e \in EntsOf(Cur.obj) :
                \E f \in EntsOf(stack'[Len(stack)].obj) : e \subseteq f]_vars

NonVertices(objects) == SelectSeq(objects, LAMBDA o : o.kind # "Vertex")

\* C18: BoundingBox under BuildSketch and BuildPart makes exactly one box per
\* object that is no Vertex, and a call whose objects are all vertices raises
\* nothing and leaves the result and the pending edges and faces of the
\* builder as they were, whatever the mode.
C18_BoundingBoxSkipsVertices ==
    [][(/\ prog = "build123d" /\ OpStep /\ HasContext
        /\ Cur.kind \in {"BuildSketch", "BuildPart"} /\ last'.op = "BoundingBox")
       => /\ Len(last'.merged) = Len(NonVertices(last'.objs))
          /\ \A i \in DOMAIN last'.merged :
                last'.merged[i].pts = BBoxPts(NonVertices(last'.objs)[i])
          /\ (last'.objs # <<>> /\ NonVertices(last'.objs) = <<>>)
                => /\ err' = "none"
                   /\ stack'[Len(stack)].obj = Cur.obj
                   /\ stack'[Len(stack)].pending_edges = Cur.pending_edges
                   /\ stack'[Len(stack)].pending_faces = Cur.pending_faces]_vars

\* C18 happens: BoundingBox of two vertices with mode SUBTRACT returned in a
\* part that holds the solid the vertices lie on, and the solid is whole.
C18_Witness ==
    /\ prog = "build123d" /\ HasContext /\ Cur.kind = "BuildPart"
    /\ last.op = "BoundingBox" /\ last.mode = "SUBTRACT" /\ err = "none"
    /\ last.objs = Corners(FaceB) /\ last.merged = <<>>
    /\ Cur.obj = Some({{0, 1}})

\* C19 (as claimed): BoundingBox of the corner vertices of a rectangle, called
\* with the default mode in a sketch that holds nothing, leaves that sketch
\* holding one face, the rectangle itself.
C19_BoxOfCornersIsRectangle ==
    [][(/\ prog = "build123d" /\ OpStep /\ HasContext
        /\ Cur = NewBuilder("BuildSketch", "ADD")
        /\ last'.op = "BoundingBox" /\ last'.mode = DefaultMode("BoundingBox")
        /\ last'.objs = Corners(FaceB))
       => stack'[Len(stack)].obj = Some({FaceB.pts})]_vars

\* C20: Offset given exactly one edge raises ValueError and leaves the builder
\* as it was; given two connected edges and nothing else it passes that test
\* and hands one wire, the offset outline of the two, to the merge, and with
\* mode ADD or REPLACE under BuildLine, BuildSketch or BuildPart it returns
\* with the outline in the builder (in the line, or among the pending edges).
C20_OffsetEdgeCount ==
    [][(prog = "build123d" /\ OpStep /\ HasContext /\ last'.op = "Offset")
       => LET given == Defaulted(last'.objs)
              after == stack'[Len(stack)]
          IN /\ Len(OffsetEdges(given)) = 1
                  => (err' = "ValueError" /\ stack' = stack)
             /\ (/\ Len(OffsetEdges(given)) = 2 /\ Len(OffsetNew(given)) = 1
                 /\ Cur.kind \in Supported("Offset"))
                  => /\ err' # "ValueError"
                     /\ last'.merged = OffsetNew(given)
                     /\ EdgesOf(last'.merged)
                          = <<Shape("Edge", OffsetPts(UNION PtsOf(OffsetEdges(given))))>>
                     /\ last'.mode \in {"ADD", "REPLACE"}
                          => /\ err' = "none"
                             /\ \A i \in DOMAIN EdgesOf(last'.merged) :
                                   IF Cur.kind = "BuildLine"
                                   THEN EdgesOf(last'.merged)[i].pts \in EntsOf(after.obj)
                                   ELSE \E j \in DOMAIN after.pending_edges :
                                          after.pending_edges[j] = EdgesOf(last'.merged)[i]]_vars

\* C20 happens: Offset of two connected edges has replaced the line by their
\* offset outline.
C20_Witness ==
    /\ prog = "build123d" /\ HasContext /\ Cur.kind = "BuildLine"
    /\ last.op = "Offset" /\ last.objs = <<EdgeA, EdgeB>> /\ err = "none"
    /\ Cur.obj = Some({OffsetPts({0, 1})})

\* what the claim has Split hand to the merge for the objects given: with BOTH
\* the top half and the bottom half of each object, as two outputs; with TOP
\* or BOTTOM the one half of each
ClaimedHalves(objects, keep) ==
    IF keep = "BOTH"
    THEN Flatten([i \in DOMAIN objects |->
                    <<MapPts(objects[i], TopHalf), MapPts(objects[i], BottomHalf)>>])
    ELSE [i \in DOMAIN objects |-> MapPts(objects[i], LAMBDA P : Halved(P, keep))]

\* C21 (as claimed): Split hands to the merge, for some keep, two outputs per
\* object (its top half and its bottom half, each the intersection with one
\* cutter box) when keep is BOTH and one output per object when keep is TOP or
\* BOTTOM.
C21_SplitOutputsPerKeep ==
    [][(/\ prog = "build123d" /\ OpStep /\ HasContext /\ err' = "none"
        /\ last'.op = "Split")
       => last'.merged \in {ClaimedHalves(Defaulted(last'.objs), k) : k \in Keeps}]_vars

\* the cells a result or a batch of solids covers, and their number (a volume)
Cells(ents) == UNION ents
Volume(ents) == Cardinality(Cells(ents))

RECURSIVE SumOfVolumes(_)
SumOfVolumes(solids) ==
    IF solids = <<>> THEN 0
    ELSE Cardinality(Head(solids).pts) + SumOfVolumes(Tail(solids))

\* no two of the solids share a cell, and none shares one with the result
Disjoint(ents, solids) ==
    /\ \A i \in DOMAIN solids : solids[i].pts \cap Cells(ents) = {}
    /\ \A i, j \in DOMAIN solids : i # j => solids[i].pts \cap solids[j].pts = {}

Reversed(q) == [i \in DOMAIN q |-> q[Len(q) + 1 - i]]

\* the solids merged into a part builder one at a time, each with ADD
RECURSIVE AddedOneByOne(_, _)
AddedOneByOne(b, solids) ==
    IF solids = <<>> THEN b
    ELSE AddedOneByOne(PartAddToContext(b, <<Head(solids)>>, "ADD").b, Tail(solids))

RECURSIVE PlacedOneByOne(_, _)
PlacedOneByOne(b, solids) ==
    IF solids = <<>> THEN b
    ELSE PlacedOneByOne(PlaceSolidsStep(b, <<Head(solids)>>, "ADDITION").b, Tail(solids))

\* what an ADD merge of the batch new into a result of entities pre leaves as
\* entities post: the union of both, each cell once, whatever the order and the
\* grouping of the batch
UnionOf(pre, new, post) ==
    /\ Cells(post) = Cells(pre) \cup UNION PtsOf(new)
    /\ \A e, f \in post : e # f => e \cap f = {}
    /\ \A i \in DOMAIN new : \E e \in post : new[i].pts \subseteq e
    /\ IF Disjoint(pre, new)
       THEN Volume(post) = Volume(pre) + SumOfVolumes(new)
       ELSE Volume(post) < Volume(pre) + SumOfVolumes(new)

\* C22: an ADD merge of a batch of solids into a part builder (Add under
\* BuildPart; place_solids, extrude and revolve of Build3D with ADDITION) leaves
\* as result the union of the result before and the batch, so that from an
\* empty builder the result is the union of everything merged so far: its
\* volume is the sum of the volumes when the solids are disjoint and less when
\* they overlap, and merging the batch one solid at a time, in either order,
\* gives the same result.
C22_AddIsUnion ==
    [][/\ (/\ prog = "build123d" /\ OpStep /\ HasContext /\ Cur.kind = "BuildPart"
           /\ last'.op = "Add" /\ last'.mode = "ADD" /\ err' = "none"
           /\ last'.merged # <<>>)
            => /\ UnionOf(EntsOf(Cur.obj), last'.merged, EntsOf(stack'[Len(stack)].obj))
               /\ stack'[Len(stack)].obj = AddedOneByOne(Cur, last'.merged).obj
               /\ stack'[Len(stack)].obj
                    = AddedOneByOne(Cur, Reversed(last'.merged)).obj
       /\ (/\ prog = "cq3" /\ OpStep /\ err' = "none" /\ last'.mode = "ADDITION"
           /\ last'.op \in {"place_solids", "extrude", "revolve"}
           /\ last'.merged # <<>>)
            => /\ UnionOf(EntsOf(b3.working_solid), last'.merged,
                          EntsOf(b3'.working_solid))
               /\ b3'.working_solid = PlacedOneByOne(b3, last'.merged).working_solid
               /\ b3'.working_solid
                    = PlacedOneByOne(b3, Reversed(last'.merged)).working_solid]_vars

\* C22 happens: two overlapping solids of volume 2 each were placed as one
\* batch in a Build3D that held a solid apart from them, and the result is two
\* solids of volume 4 in all.
C22_Witness ==
    /\ prog = "cq3" /\ last.op = "place_solids" /\ last.mode = "ADDITION"
    /\ err = "none" /\ last.merged = <<SolidB, Moved(SolidB, 1)>>
    /\ b3.working_solid = Some({{0, 1, 2}, {4}})

\* C23 (as claimed): a merge with mode REPLACE that brings no new face into a
\* sketch that holds a result discards that result and leaves the sketch
\* empty.
C23_ReplaceByNothingEmpties ==
    [][(/\ prog = "build123d" /\ OpStep /\ HasContext /\ Cur.kind = "BuildSketch"
        /\ last'.op \in SingleMergeOps /\ last'.mode = "REPLACE" /\ err' = "none"
        /\ FacesOf(last'.merged) = <<>> /\ ~Cur.obj.isNone)
       => EntsOf(stack'[Len(stack)].obj) = {}]_vars

\* x is among the pending entities q
Pending(q, x) == \E j \in DOMAIN q : q[j] = x

\* C24 (as claimed): the faces and edges merged with mode CONSTRUCTION or
\* PRIVATE are pending in the builder afterwards and its result is as it was
\* (BuildSketch merges; Build2D.place_face with CONSTRUCTION).
C24_ConstructionIsRetained ==
    [][/\ (/\ prog = "build123d" /\ OpStep /\ HasContext /\ Cur.kind = "BuildSketch"
           /\ last'.op \in {"Add", "Circle"} /\ err' = "none"
           /\ last'.mode \in {"CONSTRUCTION", "PRIVATE"})
            => /\ stack'[Len(stack)].obj = Cur.obj
               /\ \A i \in DOMAIN (FacesOf(last'.merged) \o EdgesOf(last'.merged)) :
                     Pending(stack'[Len(stack)].pending_edges
                               \o stack'[Len(stack)].pending_faces,
                             (FacesOf(last'.merged) \o EdgesOf(last'.merged))[i])
       /\ (PlaceFaceStep /\ last'.mode = "CONSTRUCTION")
            => /\ b2'.working_surface = b2.working_surface
               /\ \A i \in DOMAIN last'.merged :
                     Pending(b2'.pending_edges, last'.merged[i])]_vars

\* the step was one merge into a BuildSketch or BuildPart that returned
OneMergeStep ==
    /\ prog = "build123d" /\ OpStep /\ HasContext /\ err' = "none"
    /\ Cur.kind \in {"BuildSketch", "BuildPart"}
    /\ last'.mode # "PRIVATE"
    /\ last'.op \in SingleMergeOps \/ Len(last'.merged) = 1

\* the step was a place_solids that returned
PlaceSolidsDone == prog = "cq3" /\ OpStep /\ last'.op = "place_solids" /\ err' = "none"

AddedOnly(pre, post, delta) ==
    /\ delta \subseteq post
    /\ delta \cap pre = {}
    /\ post \ delta \subseteq pre
    /\ \A e \in pre \ post : e \notin delta

EveryPlaneHasEntries(b) ==
    /\ Len(b.workplanes) >= 1
    /\ \A i \in 0..(Len(b.workplanes) - 1) :
          /\ i \in DOMAIN b.pending_faces
          /\ i \in DOMAIN b.pending_edges
          /\ i \in DOMAIN b.locations

\* C26 (as claimed): after Build3D.workplane or faces_to_workplanes the list of
\* workplanes is not empty, has length 1 after a replace and one more per plane
\* after an append, and every workplane has its own entry of pending faces,
\* pending edges and locations, so that add and push_locations never fail.
C26_WorkplanesHaveEntries ==
    [][prog = "cq3" /\ OpStep =>
         /\ last'.op = "workplane" =>
               /\ EveryPlaneHasEntries(b3')
               /\ Len(b3'.workplanes) \in {1, Len(b3.workplanes) + 1}
         /\ last'.op = "faces_to_workplanes" =>
               /\ EveryPlaneHasEntries(b3')
               /\ Len(b3'.workplanes) \in {1, Len(b3.workplanes) + Len(last'.objs)}
         /\ last'.op \in {"Build3D.add", "Build3D.push_locations"} => err' = "none"]_vars

ConsumingOps == {"extrude", "revolve"}

\* C27 (as claimed): when extrude or revolve returns, the list of pending faces
\* of every workplane is empty, and an extrude or revolve that follows at once
\* makes no solid.
C27_PendingFacesConsumed ==
    [][(prog = "cq3" /\ OpStep /\ last'.op \in ConsumingOps /\ err' = "none")
       => /\ \A k \in DOMAIN b3'.pending_faces : b3'.pending_faces[k] = <<>>
          /\ last.op \in ConsumingOps => last'.merged = <<>>]_vars

\* the number of faces pending on the workplanes of builder b
RECURSIVE PendingFaceCount(_, _)
PendingFaceCount(b, i) ==
    IF i >= Len(b.workplanes) THEN 0
    ELSE (IF i \in DOMAIN b.pending_faces THEN Len(b.pending_faces[i]) ELSE 0)
         + PendingFaceCount(b, i + 1)

\* how many candidate solids the claim has an operation make
ClaimedCandidates(op, b) ==
    CASE op = "extrude" -> {PendingFaceCount(b, 0), 2 * PendingFaceCount(b, 0)}
      [] op = "revolve" -> {PendingFaceCount(b, 0)}
      [] OTHER -> {Len(b.workplanes)}

\* C28 (as claimed): extrude, revolve and loft each make their candidate solids
\* from the pending faces of the workplanes (extrude one per face, or two with
\* both; revolve one per face; loft one per plane) and hand all of them to
\* exactly one merge.
C28_OneBatchOfCandidates ==
    [][(prog = "cq3" /\ OpStep /\ last'.op \in {"extrude", "revolve", "loft"})
       => /\ Len(last'.merged) \in ClaimedCandidates(last'.op, b3)
          /\ b3' = PlaceSolids(b3, last'.merged, last'.mode).b
          /\ err' = PlaceSolids(b3, last'.merged, last'.mode).err]_vars

\* C29 (as claimed): when an object creation or operation returns in a sketch,
\* the delta of the sketch holds every entity the whole call introduced (the
\* result after the call less the result before it), and with mode ADD each
\* of the instances the call merged, one per location or per object, lies in
\* an entity of the delta.
C29_DeltaCoversWholeCall ==
    [][(/\ prog = "build123d" /\ OpStep /\ HasContext /\ Cur.kind = "BuildSketch"
        /\ err' = "none" /\ last'.mode # "PRIVATE"
        /\ last'.op \in {"Add", "Circle", "BoundingBox"}
        /\ FacesOf(last'.merged) # <<>>)
       => /\ stack'[Len(stack)].last_faces
               = EntsOf(stack'[Len(stack)].obj) \ EntsOf(Cur.obj)
          /\ (last'.mode = "ADD" /\ Cur.obj.isNone) =>
                \A i \in DOMAIN FacesOf(last'.merged) :
                   \E e \in stack'[Len(stack)].last_faces :
                      FacesOf(last'.merged)[i].pts \subseteq e]_vars

\* C30 (as claimed): when extrude or revolve returns, what it returns holds
\* every solid it made, in the order made, in every mode and with or without a
\* working solid before: place_solids leaves the list it is given as it was.
C30_ReturnsEverySolid ==
    [][(prog = "cq3" /\ OpStep /\ last'.op \in ConsumingOps /\ err' = "none")
       => last'.ret = last'.merged]_vars

====
